---- MODULE Spec2Model ----
(***************************************************************************)
(* Model of the numeric core of fluoro_analysis:                           *)
(*   - segment_cells, track_cells_over_time (utils/cell_segmentation.py)   *)
(*   - convert_raw_to_nanoseconds, extract_lifetime_data,                  *)
(*     analyze_time_series_lifetime_data (utils/lifetime_analysis.py)      *)
(* Each function has its own specification over the shared variables.      *)
(*                                                                         *)
(* Images are sparse: an image is a function from a finite set of pixel    *)
(* coordinates <<row, col>> to its value there; every other pixel of the   *)
(* array is background (label 0 / mask False).  The images segment_cells   *)
(* works on are rows of pixels held as runs.  Floating-point values are    *)
(* modelled as exact rationals <<numerator, denominator>>.                 *)
(***************************************************************************)
EXTENDS Integers, Sequences, FiniteSets, TLC

\* Largest frame-local label an input labeled image may carry.
MaxLabel == 2
\* Largest number of frames in an input time series.
MaxFrames == 3

VARIABLES
    pc,                      \* position of the running function
    \* track_cells_over_time
    labeled_cells_sequence,  \* frames of the input sequence read so far
    tracking_data,           \* dict: persistent id -> (frame index -> <<label, centroid>>)
    \* extract_lifetime_data
    lifetime_image,          \* argument: raw lifetime code per pixel
    binary_mask,             \* argument: boolean per pixel
    cell_labels,             \* argument: frame-local label per pixel
    convert_to_ns,           \* argument
    cell_data,               \* the returned dict, None until the function returns
    lifetime_ns,             \* result of convert_raw_to_nanoseconds, None until it returns
    \* analyze_time_series_lifetime_data
    lifetime_time_series,    \* raw lifetime frames of the series read so far
    time_series_data,        \* dict: persistent id -> record of per-frame lists
    \* segment_cells
    image,                   \* argument: intensity image
    method,                  \* argument
    manual_threshold,        \* argument, None when absent
    thresholded,             \* binary_mask as the thresholding leaves it
    local_max_coords,        \* the accepted maxima, in the order returned
    segment_result           \* the returned tuple, None until the function returns

trackVars == <<labeled_cells_sequence, tracking_data>>

lifetimeVars ==
    <<lifetime_image, binary_mask, cell_labels, convert_to_ns, cell_data, lifetime_ns>>

seriesVars == <<lifetime_time_series, time_series_data>>

segmentVars ==
    <<image, method, manual_threshold, thresholded, local_max_coords, segment_result>>

vars == <<pc, trackVars, lifetimeVars, seriesVars, segmentVars>>

----------------------------------------------------------------------------
(* Exact rational arithmetic standing for the float arithmetic of numpy.   *)

Abs(n) == IF n < 0 THEN -n ELSE n

RECURSIVE GCD(_, _)
GCD(a, b) == IF b = 0 THEN a ELSE GCD(b, a % b)

Lcm(a, b) == (a \div GCD(a, b)) * b

\* n/d in lowest terms, d > 0
Rat(n, d) == LET g == GCD(Abs(n), d) IN <<n \div g, d \div g>>

RatAdd(p, q) ==
    LET l == Lcm(p[2], q[2])
    IN  Rat(p[1] * (l \div p[2]) + q[1] * (l \div q[2]), l)

RatSub(p, q) == RatAdd(p, <<-q[1], q[2]>>)

RatMul(p, q) ==
    LET g1 == GCD(Abs(p[1]), q[2])
        g2 == GCD(Abs(q[1]), p[2])
    IN  Rat((p[1] \div g1) * (q[1] \div g2), (p[2] \div g2) * (q[2] \div g1))

RatLess(p, q) ==
    LET l == Lcm(p[2], q[2])
    IN  p[1] * (l \div p[2]) < q[1] * (l \div q[2])

\* float('inf')
Inf == <<1, 0>>

\* None
None == <<>>

----------------------------------------------------------------------------
(* Labeled images and skimage.measure.regionprops.                         *)

\* Pixel layouts of the labeled images given to the tracker: two pixels
\* 10, 50 and 60 px apart.
TrackLayouts ==
    { {<<0, 0>>, <<6, 8>>}, {<<0, 0>>, <<30, 40>>}, {<<0, 0>>, <<36, 48>>} }

LabeledImages(P) == [P -> 0..MaxLabel]

RECURSIVE SetToSortedSeq(_)
SetToSortedSeq(S) ==
    IF S = {} THEN <<>>
    ELSE LET m == CHOOSE x \in S : \A y \in S : x <= y
         IN  <<m>> \o SetToSortedSeq(S \ {m})

RECURSIVE SumCoord(_, _)
SumCoord(C, i) ==
    IF C = {} THEN 0
    ELSE LET p == CHOOSE q \in C : TRUE
         IN  p[i] + SumCoord(C \ {p}, i)

\* the positive labels present in a labeled image
RegionLabels(img) == {img[p] : p \in DOMAIN img} \ {0}

RegionCoords(img, L) == {p \in DOMAIN img : img[p] = L}

\* region.centroid: the mean of the region's pixel coordinates
Centroid(img, L) ==
    LET C == RegionCoords(img, L)
    IN  <<Rat(SumCoord(C, 1), Cardinality(C)), Rat(SumCoord(C, 2), Cardinality(C))>>

\* measure.regionprops(img): one region per positive label, ascending label
RegionProps(img) ==
    LET ls == SetToSortedSeq(RegionLabels(img))
    IN  [i \in 1..Len(ls) |->
            [label    |-> ls[i],
             area     |-> Cardinality(RegionCoords(img, ls[i])),
             centroid |-> Centroid(img, ls[i])]]

----------------------------------------------------------------------------
(* track_cells_over_time                                                   *)

\* Gating distance of the matching step.
GatingDistance == 50

\* The Euclidean distance np.sqrt(dr**2 + dc**2), held as its square: sqrt
\* is monotone, so every comparison of distances is the comparison of the
\* squares.
Distance2PrevRowTwice(prev_centroid, curr_centroid) ==
    LET dr == RatSub(prev_centroid[1], curr_centroid[1])
        dc == RatSub(prev_centroid[1], curr_centroid[2])
    IN  RatAdd(RatMul(dr, dr), RatMul(dc, dc))

Distance2(prev_centroid, curr_centroid) ==
    LET dr == RatSub(prev_centroid[1], curr_centroid[1])
        dc == RatSub(prev_centroid[2], curr_centroid[2])
    IN  RatAdd(RatMul(dr, dr), RatMul(dc, dc))

\* distance < min_distance
DistLessOrEqual(distance, min_distance) ==
    min_distance = Inf \/ ~RatLess(min_distance, distance)

DistLess(distance, min_distance) ==
    min_distance = Inf \/ RatLess(distance, min_distance)

\* min_distance < 50
WithinGateInclusive(min_distance) ==
    /\ min_distance # Inf
    /\ ~RatLess(<<GatingDistance * GatingDistance, 1>>, min_distance)

WithinGate(min_distance) ==
    /\ min_distance # Inf
    /\ RatLess(min_distance, <<GatingDistance * GatingDistance, 1>>)

\* for cell in cell_props: tracking_data[cell.label] = {0: (cell.label, cell.centroid)}
InitTrackingByPosition(first_frame) ==
    LET cell_props == RegionProps(first_frame)
    IN  [cell_id \in 1..Len(cell_props) |->
            (0 :> <<cell_props[cell_id].label, cell_props[cell_id].centroid>>)]

InitTracking(first_frame) ==
    LET cell_props == RegionProps(first_frame)
    IN  [cell_id \in {cell_props[i].label : i \in 1..Len(cell_props)} |->
            (0 :> <<cell_id, Centroid(first_frame, cell_id)>>)]

\* prev_centroids: the identities with an entry at t-1, and their centroid there
LastKnownCentroids(td, t) ==
    [cell_id \in DOMAIN td |->
        LET last == CHOOSE s \in DOMAIN td[cell_id] :
                        \A u \in DOMAIN td[cell_id] : u <= s
        IN  td[cell_id][last][2]]

PrevCentroids(td, t) ==
    [cell_id \in {id \in DOMAIN td : (t - 1) \in DOMAIN td[id]} |->
        td[cell_id][t - 1][2]]

\* the inner loop over current_centroids.items(), from region i on
RECURSIVE MatchLoop(_, _, _, _)
MatchLoop(prev_centroid, current_props, i, acc) ==
    IF i > Len(current_props) THEN acc
    ELSE LET curr     == current_props[i]
             distance == Distance2(prev_centroid, curr.centroid)
         IN  MatchLoop(prev_centroid, current_props, i + 1,
                 IF DistLess(distance, acc.min_distance)
                 THEN [min_distance |-> distance,
                       best_match   |-> <<curr.label, curr.centroid>>]
                 ELSE acc)

\* a match that keeps the centroid of the previous frame
MatchKeepsPrevCentroid(prev_centroid, current_props) ==
    LET m == MatchLoop(prev_centroid, current_props, 1,
                       [min_distance |-> Inf, best_match |-> None])
    IN  IF m.best_match = None THEN m
        ELSE [m EXCEPT !.best_match = <<m.best_match[1], prev_centroid>>]

Match(prev_centroid, current_props) ==
    MatchLoop(prev_centroid, current_props, 1,
              [min_distance |-> Inf, best_match |-> None])

\* one iteration of "for t in range(1, len(labeled_cells_sequence))"
TrackFrameNewIds(td, current_frame, t) ==
    LET current_props  == RegionProps(current_frame)
        prev_centroids == PrevCentroids(td, t)
        m(id)          == Match(prev_centroids[id], current_props)
        linked(id)     == /\ id \in DOMAIN prev_centroids
                          /\ WithinGate(m(id).min_distance)
                          /\ m(id).best_match # None
        taken          == {m(id).best_match[1] : id \in {j \in DOMAIN td : linked(j)}}
        fresh          == (RegionLabels(current_frame) \ taken) \ DOMAIN td
    IN  [id \in DOMAIN td \cup fresh |->
            IF id \in fresh THEN (t :> <<id, Centroid(current_frame, id)>>)
            ELSE IF linked(id) THEN td[id] @@ (t :> m(id).best_match)
            ELSE td[id]]

TrackFrameExclusive(td, current_frame, t) ==
    LET current_props  == RegionProps(current_frame)
        prev_centroids == PrevCentroids(td, t)
        m(id)          == Match(prev_centroids[id], current_props)
        linked(id)     == /\ id \in DOMAIN prev_centroids
                          /\ WithinGate(m(id).min_distance)
                          /\ m(id).best_match # None
        first(id)      == \A j \in DOMAIN td :
                              (j < id /\ linked(j)) =>
                                  m(j).best_match[1] # m(id).best_match[1]
    IN  [id \in DOMAIN td |->
            IF linked(id) /\ first(id) THEN td[id] @@ (t :> m(id).best_match)
            ELSE td[id]]

TrackFrame(td, current_frame, t) ==
    LET current_props  == RegionProps(current_frame)
        prev_centroids == PrevCentroids(td, t)
        m(id)          == Match(prev_centroids[id], current_props)
    IN  [id \in DOMAIN td |->
            IF /\ id \in DOMAIN prev_centroids
               /\ WithinGate(m(id).min_distance)
               /\ m(id).best_match # None
            THEN td[id] @@ (t :> m(id).best_match)
            ELSE td[id]]

\* "if not labeled_cells_sequence: return tracking_data"
TrackEmpty ==
    /\ pc = "start"
    /\ pc' = "done"
    /\ UNCHANGED <<labeled_cells_sequence, tracking_data>>
    /\ UNCHANGED lifetimeVars
    /\ UNCHANGED seriesVars
    /\ UNCHANGED segmentVars

\* initialisation from the first frame
TrackFirstFrame ==
    /\ pc = "start"
    /\ \E P \in TrackLayouts : \E first_frame \in LabeledImages(P) :
          /\ labeled_cells_sequence' = <<first_frame>>
          /\ tracking_data' = InitTracking(first_frame)
    /\ pc' = "track"
    /\ UNCHANGED lifetimeVars
    /\ UNCHANGED seriesVars
    /\ UNCHANGED segmentVars

\* loop iteration t = number of frames read so far
TrackNextFrame ==
    /\ pc = "track"
    /\ Len(labeled_cells_sequence) < MaxFrames
    /\ \E current_frame \in LabeledImages(DOMAIN labeled_cells_sequence[1]) :
          /\ tracking_data' = TrackFrame(tracking_data, current_frame,
                                         Len(labeled_cells_sequence))
          /\ labeled_cells_sequence' = Append(labeled_cells_sequence, current_frame)
    /\ pc' = "track"
    /\ UNCHANGED lifetimeVars
    /\ UNCHANGED seriesVars
    /\ UNCHANGED segmentVars

\* the loop is over: return tracking_data
TrackReturn ==
    /\ pc = "track"
    /\ pc' = "done"
    /\ UNCHANGED <<labeled_cells_sequence, tracking_data>>
    /\ UNCHANGED lifetimeVars
    /\ UNCHANGED seriesVars
    /\ UNCHANGED segmentVars

\* no call of extract_lifetime_data is under way
LifetimeIdle ==
    /\ lifetime_image = <<>>
    /\ binary_mask = <<>>
    /\ cell_labels = <<>>
    /\ convert_to_ns = FALSE
    /\ cell_data = None
    /\ lifetime_ns = None

\* no call of segment_cells is under way
SegmentIdle ==
    /\ image = <<>>
    /\ method = ""
    /\ manual_threshold = None
    /\ thresholded = <<>>
    /\ local_max_coords = <<>>
    /\ segment_result = None

\* no call of analyze_time_series_lifetime_data is under way
SeriesIdle ==
    /\ lifetime_time_series = <<>>
    /\ time_series_data = <<>>

Init ==
    /\ pc = "start"
    /\ labeled_cells_sequence = <<>>
    /\ tracking_data = <<>>
    /\ LifetimeIdle
    /\ SeriesIdle
    /\ SegmentIdle

Next ==
    \/ TrackEmpty
    \/ TrackFirstFrame
    \/ TrackNextFrame
    \/ TrackReturn

Spec == Init /\ [][Next]_vars

----------------------------------------------------------------------------
(* convert_raw_to_nanoseconds and extract_lifetime_data                    *)

\* np.nan
NaN == <<0, 0>>

\* the divisor without its fraction
TruncatedScaleFactor == <<6553, 1>>

\* 6553.5
LifetimeScaleFactor == <<13107, 2>>

\* Raw lifetime codes of the input pixels.
RawValues == {0, 1, 3}

\* Pixel layout of the images given to extract_lifetime_data.
LifetimeLayout == {<<0, 0>>, <<0, 1>>, <<1, 0>>}

\* a conversion that clamps the result to 10 ns
ConvertRawClamped(img) ==
    [p \in DOMAIN img |->
        LET ns == RatMul(<<img[p], 1>>,
                         <<LifetimeScaleFactor[2], LifetimeScaleFactor[1]>>)
        IN  IF RatLess(<<10, 1>>, ns) THEN <<10, 1>> ELSE ns]

\* a conversion that divides by 6553.5 a second time
ConvertRawTwice(img) ==
    [p \in DOMAIN img |->
        RatMul(RatMul(<<img[p], 1>>,
                      <<LifetimeScaleFactor[2], LifetimeScaleFactor[1]>>),
               <<LifetimeScaleFactor[2], LifetimeScaleFactor[1]>>)]

\* lifetime_ns = np.array(lifetime_image, dtype=float); lifetime_ns /= 6553.5
ConvertRawToNanoseconds(img) ==
    [p \in DOMAIN img |->
        RatMul(<<img[p], 1>>, <<LifetimeScaleFactor[2], LifetimeScaleFactor[1]>>)]

\* a conversion that divides the caller's integer array in place
CallerImageDividedInPlace(img, to_ns) ==
    IF to_ns
    THEN [p \in DOMAIN img |->
             (img[p] * LifetimeScaleFactor[2]) \div LifetimeScaleFactor[1]]
    ELSE img

\* the caller's array once the call has returned: np.array(...) makes a
\* copy, "/=" writes into the copy and extract_lifetime_data rebinds its
\* own parameter only
CallerImageAfter(img, to_ns) == img

\* the pixels of C in row-major order, the order of boolean-mask indexing
RECURSIVE RowMajor(_)
RowMajor(C) ==
    IF C = {} THEN <<>>
    ELSE LET p == CHOOSE q \in C : \A r \in C :
                      q[1] < r[1] \/ (q[1] = r[1] /\ q[2] <= r[2])
         IN  <<p>> \o RowMajor(C \ {p})

\* lifetime_image[cell_labels == cell_id]
MaskedValues(img, labels, cell_id) ==
    LET px == RowMajor(RegionCoords(labels, cell_id))
    IN  [i \in 1..Len(px) |-> img[px[i]]]

RECURSIVE SeqSum(_)
SeqSum(xs) == IF xs = <<>> THEN <<0, 1>> ELSE RatAdd(Head(xs), SeqSum(Tail(xs)))

\* xs with x inserted before the first greater element
RECURSIVE Insert(_, _)
Insert(x, xs) ==
    IF xs = <<>> THEN <<x>>
    ELSE IF RatLess(Head(xs), x) THEN <<Head(xs)>> \o Insert(x, Tail(xs))
    ELSE <<x>> \o xs

RECURSIVE Sorted(_)
Sorted(xs) == IF xs = <<>> THEN <<>> ELSE Insert(Head(xs), Sorted(Tail(xs)))

\* np.mean
Mean(xs) ==
    IF Len(xs) = 0 THEN NaN ELSE RatMul(SeqSum(xs), <<1, Len(xs)>>)

\* np.median
Median(xs) ==
    LET n  == Len(xs)
        ys == Sorted(xs)
    IN  IF n = 0 THEN NaN
        ELSE IF n % 2 = 1 THEN ys[(n + 1) \div 2]
        ELSE RatMul(RatAdd(ys[n \div 2], ys[n \div 2 + 1]), <<1, 2>>)

\* np.sqrt of a rational: 0 for 0, otherwise kept as the radicand
Sqrt(q) == IF q[1] = 0 THEN <<0, 1>> ELSE <<"sqrt", q[1], q[2]>>

\* np.std: the square root of the mean squared deviation from the mean
Std(xs) ==
    IF Len(xs) = 0 THEN NaN
    ELSE LET m  == Mean(xs)
             sq == [i \in 1..Len(xs) |->
                       RatMul(RatSub(xs[i], m), RatSub(xs[i], m))]
         IN  Sqrt(Mean(sq))

\* np.min, np.max
Min(xs) == CHOOSE x \in {xs[i] : i \in 1..Len(xs)} :
               \A j \in 1..Len(xs) : ~RatLess(xs[j], x)

Max(xs) == CHOOSE x \in {xs[i] : i \in 1..Len(xs)} :
               \A j \in 1..Len(xs) : ~RatLess(x, xs[j])

\* np.sum(binary_mask)
CountTrue(mask) == Cardinality({p \in DOMAIN mask : mask[p]})

\* keys of the returned dict: the int cell ids and the string 'overall'
CellKey(cell_id) == <<"cell", cell_id>>

OverallKey == <<"overall">>

\* cell_data[cell_id] = {...}
CellStats(img, region, cell_lifetimes) ==
    [cell_id         |-> region.label,
     area_pixels     |-> region.area,
     centroid_y      |-> region.centroid[1],
     centroid_x      |-> region.centroid[2],
     median_lifetime |-> Median(cell_lifetimes),
     mean_lifetime   |-> Mean(cell_lifetimes),
     std_lifetime    |-> Std(cell_lifetimes),
     min_lifetime    |-> Min(cell_lifetimes),
     max_lifetime    |-> Max(cell_lifetimes),
     all_lifetimes   |-> cell_lifetimes]

\* the loop "for region in regions", from region i on; acc holds cell_data
\* and all_lifetimes
RECURSIVE RegionLoop(_, _, _, _, _)
RegionLoop(img, labels, regions, i, acc) ==
    IF i > Len(regions) THEN acc
    ELSE LET region         == regions[i]
             cell_lifetimes == MaskedValues(img, labels, region.label)
         IN  RegionLoop(img, labels, regions, i + 1,
                 IF Len(cell_lifetimes) = 0 THEN acc
                 ELSE [cell_data     |-> acc.cell_data @@
                                         (CellKey(region.label) :>
                                            CellStats(img, region, cell_lifetimes)),
                       all_lifetimes |-> acc.all_lifetimes \o cell_lifetimes])

\* the block "Calculate overall statistics"
OverallStatsUnguarded(all_lifetimes, cd, mask) ==
    [overall_median_lifetime |-> Median(all_lifetimes),
     overall_mean_lifetime   |-> Mean(all_lifetimes),
     overall_std_lifetime    |-> Std(all_lifetimes),
     cell_count              |-> Cardinality(DOMAIN cd),
     total_area_pixels       |-> CountTrue(mask)]

OverallStatsOfCellStats(all_lifetimes, cd, mask) ==
    LET ks == SetToSortedSeq({k[2] : k \in DOMAIN cd})
    IN  IF all_lifetimes # <<>>
        THEN [overall_median_lifetime |->
                  Median([i \in 1..Len(ks) |-> cd[CellKey(ks[i])].median_lifetime]),
              overall_mean_lifetime   |->
                  Mean([i \in 1..Len(ks) |-> cd[CellKey(ks[i])].mean_lifetime]),
              overall_std_lifetime    |-> Std(all_lifetimes),
              cell_count              |-> Cardinality(DOMAIN cd),
              total_area_pixels       |-> CountTrue(mask)]
        ELSE [overall_median_lifetime |-> <<0, 1>>,
              overall_mean_lifetime   |-> <<0, 1>>,
              overall_std_lifetime    |-> <<0, 1>>,
              cell_count              |-> 0,
              total_area_pixels       |-> 0]

OverallStats(all_lifetimes, cd, mask) ==
    IF all_lifetimes # <<>>
    THEN [overall_median_lifetime |-> Median(all_lifetimes),
          overall_mean_lifetime   |-> Mean(all_lifetimes),
          overall_std_lifetime    |-> Std(all_lifetimes),
          cell_count              |-> Cardinality(DOMAIN cd),
          total_area_pixels       |-> CountTrue(mask)]
    ELSE [overall_median_lifetime |-> <<0, 1>>,
          overall_mean_lifetime   |-> <<0, 1>>,
          overall_std_lifetime    |-> <<0, 1>>,
          cell_count              |-> 0,
          total_area_pixels       |-> 0]

\* the value extract_lifetime_data returns
ExtractLifetimeData(raw_image, mask, labels, to_ns) ==
    LET img  == IF to_ns THEN ConvertRawToNanoseconds(raw_image)
                ELSE [p \in DOMAIN raw_image |-> <<raw_image[p], 1>>]
        loop == RegionLoop(img, labels, RegionProps(labels), 1,
                           [cell_data |-> <<>>, all_lifetimes |-> <<>>])
    IN  loop.cell_data @@
            (OverallKey :> OverallStats(loop.all_lifetimes, loop.cell_data, mask))

\* one call of extract_lifetime_data on the arguments drawn by InitLifetime
Extract ==
    /\ pc = "start"
    /\ cell_data' = ExtractLifetimeData(lifetime_image, binary_mask,
                                        cell_labels, convert_to_ns)
    /\ pc' = "done"
    /\ lifetime_image' = CallerImageAfter(lifetime_image, convert_to_ns)
    /\ UNCHANGED <<binary_mask, cell_labels, convert_to_ns, lifetime_ns>>
    /\ UNCHANGED trackVars
    /\ UNCHANGED seriesVars
    /\ UNCHANGED segmentVars

\* the arguments of a call: a labeled image, a mask that covers every
\* labeled pixel, a raw lifetime image of the same shape and the flag
InitLifetime ==
    /\ pc = "start"
    /\ labeled_cells_sequence = <<>>
    /\ tracking_data = <<>>
    /\ cell_labels \in LabeledImages(LifetimeLayout)
    /\ binary_mask \in [LifetimeLayout -> BOOLEAN]
    /\ \A p \in LifetimeLayout : cell_labels[p] > 0 => binary_mask[p]
    /\ lifetime_image \in [LifetimeLayout -> RawValues]
    /\ convert_to_ns \in BOOLEAN
    /\ cell_data = None
    /\ lifetime_ns = None
    /\ SeriesIdle
    /\ SegmentIdle

NextLifetime == Extract

SpecLifetime == InitLifetime /\ [][NextLifetime]_vars

\* Raw codes of the images whose pixels all carry one code: mid-range and
\* full-range.
UniformRawValues == {32767, 65535}

\* a call on a lifetime image whose pixels all carry the same raw code
InitUniform ==
    /\ pc = "start"
    /\ labeled_cells_sequence = <<>>
    /\ tracking_data = <<>>
    /\ cell_labels \in LabeledImages(LifetimeLayout)
    /\ binary_mask \in [LifetimeLayout -> BOOLEAN]
    /\ \A p \in LifetimeLayout : cell_labels[p] > 0 => binary_mask[p]
    /\ lifetime_image \in {[p \in LifetimeLayout |-> raw] : raw \in UniformRawValues}
    /\ convert_to_ns \in BOOLEAN
    /\ cell_data = None
    /\ lifetime_ns = None
    /\ SeriesIdle
    /\ SegmentIdle

SpecUniform == InitUniform /\ [][NextLifetime]_vars

\* Raw codes given to convert_raw_to_nanoseconds alone: the ends of the
\* 16-bit range, codes and their doubles, and a code beyond the range.
ConvertRawValues == {0, 1, 2, 32767, 65534, 65535, 65536}

\* a call of convert_raw_to_nanoseconds
Convert ==
    /\ pc = "start"
    /\ lifetime_ns' = ConvertRawToNanoseconds(lifetime_image)
    /\ lifetime_image' = CallerImageAfter(lifetime_image, TRUE)
    /\ pc' = "done"
    /\ UNCHANGED <<binary_mask, cell_labels, convert_to_ns, cell_data>>
    /\ UNCHANGED trackVars
    /\ UNCHANGED seriesVars
    /\ UNCHANGED segmentVars

InitConvert ==
    /\ pc = "start"
    /\ labeled_cells_sequence = <<>>
    /\ tracking_data = <<>>
    /\ lifetime_image \in [LifetimeLayout -> ConvertRawValues]
    /\ binary_mask = <<>>
    /\ cell_labels = <<>>
    /\ convert_to_ns = TRUE
    /\ cell_data = None
    /\ lifetime_ns = None
    /\ SeriesIdle
    /\ SegmentIdle

NextConvert == Convert

SpecConvert == InitConvert /\ [][NextConvert]_vars

----------------------------------------------------------------------------
(* analyze_time_series_lifetime_data, called as time_series.py calls it:   *)
(* with the frames' labeled images and the table track_cells_over_time     *)
(* built from those same labeled images.  Iteration t reads frame t of     *)
(* both series and row t of the table only, so the frames are drawn and    *)
(* the table is extended as the loop reaches them.                         *)

\* Largest number of frames of a series given to the analysis.
MaxSeriesFrames == 2

\* Pixel layout of the frames of a series: two pixels 60 px apart.
SeriesLayout == {<<0, 0>>, <<36, 48>>}

\* Raw lifetime frames of a series: the two pixels carry different codes.
SeriesRawImages ==
    {img \in [SeriesLayout -> {1, 3}] : img[<<0, 0>>] # img[<<36, 48>>]}

\* the lists a persistent id gets when it is first seen
EmptySeries ==
    [median_lifetime |-> <<>>, mean_lifetime |-> <<>>, std_lifetime |-> <<>>,
     time_points |-> <<>>, area_pixels |-> <<>>]

\* appends that leave out the area
AppendTimePointWithoutArea(series, cell, t) ==
    [median_lifetime |-> Append(series.median_lifetime, cell.median_lifetime),
     mean_lifetime   |-> Append(series.mean_lifetime, cell.mean_lifetime),
     std_lifetime    |-> Append(series.std_lifetime, cell.std_lifetime),
     time_points     |-> Append(series.time_points, t),
     area_pixels     |-> series.area_pixels]

\* the five append calls
AppendTimePoint(series, cell, t) ==
    [median_lifetime |-> Append(series.median_lifetime, cell.median_lifetime),
     mean_lifetime   |-> Append(series.mean_lifetime, cell.mean_lifetime),
     std_lifetime    |-> Append(series.std_lifetime, cell.std_lifetime),
     time_points     |-> Append(series.time_points, t),
     area_pixels     |-> Append(series.area_pixels, cell.area_pixels)]

\* time_point_data.pop('overall', {})
PopOverall(cd) == [key \in DOMAIN cd \ {OverallKey} |-> cd[key]]

\* a loop body that looks the statistics up under the persistent id
AnalyzeTimePointByPersistentId(tsd, time_point_data, td, t) ==
    LET hit(id) == /\ t \in DOMAIN td[id]
                   /\ CellKey(id) \in DOMAIN time_point_data
    IN  [id \in DOMAIN tsd \cup {j \in DOMAIN td : hit(j)} |->
            IF id \in DOMAIN td /\ hit(id)
            THEN AppendTimePoint(IF id \in DOMAIN tsd THEN tsd[id] ELSE EmptySeries,
                                 time_point_data[CellKey(id)], t)
            ELSE tsd[id]]

\* "for orig_cell_id, track_info in tracking_data.items()" at time point t
AnalyzeTimePoint(tsd, time_point_data, td, t) ==
    LET current_cell_id(id) == td[id][t][1]
        hit(id) == /\ t \in DOMAIN td[id]
                   /\ CellKey(current_cell_id(id)) \in DOMAIN time_point_data
    IN  [id \in DOMAIN tsd \cup {j \in DOMAIN td : hit(j)} |->
            IF id \in DOMAIN td /\ hit(id)
            THEN AppendTimePoint(IF id \in DOMAIN tsd THEN tsd[id] ELSE EmptySeries,
                                 time_point_data[CellKey(current_cell_id(id))], t)
            ELSE tsd[id]]

\* the caller has frame t of both series, and the tracker's row t
SeriesFrame ==
    /\ pc = "series"
    /\ Len(lifetime_time_series) < MaxSeriesFrames
    /\ \E labeled_cells \in LabeledImages(SeriesLayout) :
          /\ labeled_cells_sequence' = Append(labeled_cells_sequence, labeled_cells)
          /\ tracking_data' =
                IF Len(labeled_cells_sequence) = 0
                THEN InitTracking(labeled_cells)
                ELSE TrackFrame(tracking_data, labeled_cells,
                                Len(labeled_cells_sequence))
    /\ \E raw \in SeriesRawImages :
          lifetime_time_series' = Append(lifetime_time_series, raw)
    /\ pc' = "analyze"
    /\ UNCHANGED time_series_data
    /\ UNCHANGED lifetimeVars
    /\ UNCHANGED segmentVars

\* iteration t of "for t in range(time_points)"
AnalyzeFrame ==
    /\ pc = "analyze"
    /\ LET t             == Len(lifetime_time_series) - 1
           raw           == lifetime_time_series[t + 1]
           labeled_cells == labeled_cells_sequence[t + 1]
           time_point_data ==
               PopOverall(ExtractLifetimeData(raw,
                              [p \in DOMAIN labeled_cells |-> labeled_cells[p] > 0],
                              labeled_cells, TRUE))
       IN  /\ time_series_data' =
                 AnalyzeTimePoint(time_series_data, time_point_data,
                                  tracking_data, t)
           /\ lifetime_time_series' =
                 [lifetime_time_series EXCEPT ![t + 1] = CallerImageAfter(@, TRUE)]
    /\ pc' = "series"
    /\ UNCHANGED trackVars
    /\ UNCHANGED lifetimeVars
    /\ UNCHANGED segmentVars

\* the loop is over: return time_series_data
SeriesReturn ==
    /\ pc = "series"
    /\ pc' = "done"
    /\ UNCHANGED <<trackVars, lifetimeVars, seriesVars, segmentVars>>

InitSeries ==
    /\ pc = "series"
    /\ labeled_cells_sequence = <<>>
    /\ tracking_data = <<>>
    /\ LifetimeIdle
    /\ SeriesIdle
    /\ SegmentIdle

NextSeries ==
    \/ SeriesFrame
    \/ AnalyzeFrame
    \/ SeriesReturn

SpecSeries == InitSeries /\ [][NextSeries]_vars

----------------------------------------------------------------------------
(* The two runs of the program that measure lifetimes: main.py calls       *)
(* extract_lifetime_data once on the single frame, with the default        *)
(* convert_to_ns=True; time_series.py calls the time-series analysis.      *)

\* main.py: extract_lifetime_data(lifetime_channel, segmented_cells, cell_labels)
InitMain ==
    /\ InitLifetime
    /\ convert_to_ns = TRUE

InitRuns == InitMain \/ InitSeries

NextRuns ==
    \/ Extract
    \/ SeriesFrame
    \/ AnalyzeFrame
    \/ SeriesReturn

SpecRuns == InitRuns /\ [][NextRuns]_vars

----------------------------------------------------------------------------
(* segment_cells.  An image is modelled by one row of pixels, held as its  *)
(* runs <<value, length>> from left to right; a connected component of a   *)
(* mask is a run of the mask.  The thresholds that threshold_otsu and      *)
(* threshold_local compute, and the maxima that peak_local_max accepts,    *)
(* are drawn from the outcomes these library calls can have.               *)

\* Largest number of runs of constant intensity in an input image.
MaxRuns == 3

\* Lengths of the runs of an input image, around the two area limits.
RunLengths == {49, 50, 99, 100}

\* Intensities of an input image: dark and bright.
Intensities == {0, 2}

Images == UNION {[1..k -> Intensities \X RunLengths] : k \in 1..MaxRuns}

\* The values of --threshold: three known methods and an unknown one.
Methods == {"otsu", "adaptive", "manual", "percentile"}

\* manual_threshold: absent, 0.0 or 1.0
ManualThresholds == {None, <<0, 1>>, <<1, 1>>}

\* Results of threshold_otsu and threshold_local on the normalized image:
\* a level between dark and bright, or (local mean - 0.05) below dark.
ComputedThresholds == {<<1, 2>>, <<-1, 20>>}

\* adjacent runs of equal value are one run
RECURSIVE MergeRuns(_)
MergeRuns(runs) ==
    IF Len(runs) <= 1 THEN runs
    ELSE LET rest == MergeRuns(Tail(runs))
         IN  IF Head(runs)[1] = rest[1][1]
             THEN <<<<rest[1][1], Head(runs)[2] + rest[1][2]>>>> \o Tail(rest)
             ELSE <<Head(runs)>> \o rest

\* image.max()
MaxIntensity(im) ==
    CHOOSE m \in {im[i][1] : i \in 1..Len(im)} :
        \A i \in 1..Len(im) : im[i][1] <= m

\* image / np.max(image) if image.max() > 1.0, else image.copy()
Normalize(im) ==
    LET m == MaxIntensity(im)
    IN  [i \in 1..Len(im) |->
            <<IF m > 1 THEN Rat(im[i][1], m) ELSE <<im[i][1], 1>>,
              im[i][2]>>]

\* image_normalized > threshold_value
Above(image_normalized, threshold_value) ==
    MergeRuns([i \in 1..Len(image_normalized) |->
                  <<RatLess(threshold_value, image_normalized[i][1]),
                    image_normalized[i][2]>>])

Invert(mask) == [i \in 1..Len(mask) |-> <<~mask[i][1], mask[i][2]>>]

\* area_threshold of remove_small_holes
HoleAreaThreshold == 50

\* min_size of remove_small_objects
MinObjectSize == 100

\* morphology.remove_small_objects: components smaller than min_size go
RemoveSmallObjects(mask, min_size) ==
    MergeRuns([i \in 1..Len(mask) |->
                  IF mask[i][1] /\ mask[i][2] < min_size
                  THEN <<FALSE, mask[i][2]>>
                  ELSE mask[i]])

\* morphology.remove_small_holes: remove_small_objects on the inverted mask
RemoveSmallHoles(mask, area_threshold) ==
    Invert(RemoveSmallObjects(Invert(mask), area_threshold))

\* a cleanup that prunes the small objects before it fills the holes
CleanUpPruneFirst(mask) ==
    RemoveSmallHoles(RemoveSmallObjects(mask, MinObjectSize), HoleAreaThreshold)

\* lines 55-56
CleanUp(mask) ==
    RemoveSmallObjects(RemoveSmallHoles(mask, HoleAreaThreshold), MinObjectSize)

\* the column of the first pixel of run i (columns count from 0)
RECURSIVE Start(_, _)
Start(runs, i) == IF i = 1 THEN 0 ELSE Start(runs, i - 1) + runs[i - 1][2]

\* the runs of mask that are foreground
Components(mask) == {i \in 1..Len(mask) : mask[i][1]}

\* Number of maxima peak_local_max may accept in one component.
PeakCounts == {0, 1, 2}

\* c maxima of component i, evenly spread (more than min_distance apart)
PeaksIn(mask, i, c) ==
    {Start(mask, i) + ((2 * j - 1) * mask[i][2]) \div (2 * c) : j \in 1..c}

\* the orders in which the coordinates of P can be returned
Orderings(P) ==
    {s \in [1..Cardinality(P) -> P] : \A i, j \in DOMAIN s : s[i] = s[j] => i = j}

\* markers that number the maxima from 0
MarkersFromZero(coords) ==
    [p \in {coords[i] : i \in DOMAIN coords} |->
        (CHOOSE i \in DOMAIN coords : coords[i] = p) - 1]

\* markers[tuple(local_max_coords.T)] = np.arange(1, len(local_max_coords) + 1);
\* every other pixel of markers is 0
Markers(coords) ==
    [p \in {coords[i] : i \in DOMAIN coords} |->
        CHOOSE i \in DOMAIN coords : coords[i] = p]

RECURSIVE Flatten(_)
Flatten(seqs) == IF seqs = <<>> THEN <<>> ELSE Head(seqs) \o Flatten(Tail(seqs))

\* the basins of one component: it is split halfway between neighbouring
\* seeds, and stays 0 when it holds no seed
Basins(first, last, seeds, markers) ==
    LET q == SetToSortedSeq(seeds)
        k == Len(q)
        lo(j) == IF j = 1 THEN first ELSE (q[j - 1] + q[j]) \div 2 + 1
        hi(j) == IF j = k THEN last ELSE (q[j] + q[j + 1]) \div 2
    IN  IF k = 0 THEN <<<<0, last - first + 1>>>>
        ELSE [j \in 1..k |-> <<markers[q[j]], hi(j) - lo(j) + 1>>]

\* segmentation.watershed(-distance, markers, mask=binary_mask): pixels
\* outside the mask stay 0, a component is flooded from the pixels whose
\* marker is positive
Watershed(markers, mask) ==
    MergeRuns(Flatten(
        [i \in 1..Len(mask) |->
            IF ~mask[i][1] THEN <<<<0, mask[i][2]>>>>
            ELSE LET first == Start(mask, i)
                     last  == first + mask[i][2] - 1
                 IN  Basins(first, last,
                            {p \in DOMAIN markers :
                                markers[p] > 0 /\ first <= p /\ p <= last},
                            markers)]))

\* a check that takes a threshold of 0.0 for a missing one
RaisesOnFalsyThreshold(m, value) ==
    \/ m = "manual" /\ value \in {None, <<0, 1>>}
    \/ m \notin {"otsu", "adaptive", "manual"}

\* the two ways to "raise ValueError": method 'manual' with
\* "manual_threshold is None", and the final else of the if/elif chain
Raises(m, value) ==
    \/ m = "manual" /\ value = None
    \/ m \notin {"otsu", "adaptive", "manual"}

\* "raise ValueError" at lines 47 and 52
SegmentRaises ==
    /\ pc = "start"
    /\ Raises(method, manual_threshold)
    /\ pc' = "error"
    /\ UNCHANGED <<image, method, manual_threshold>>
    /\ UNCHANGED <<thresholded, local_max_coords, segment_result>>
    /\ UNCHANGED <<trackVars, lifetimeVars, seriesVars>>

\* a call that returns (binary_mask, labeled_cells, threshold_value)
SegmentCells ==
    /\ pc = "start"
    /\ ~Raises(method, manual_threshold)
    /\ \E threshold_value \in
             IF method = "manual" THEN {manual_threshold} ELSE ComputedThresholds :
          LET cleaned == CleanUp(Above(Normalize(image), threshold_value))
          IN  \E count \in [Components(cleaned) -> PeakCounts] :
                 \E coords \in Orderings(UNION {PeaksIn(cleaned, i, count[i]) :
                                                   i \in Components(cleaned)}) :
                    /\ thresholded' = Above(Normalize(image), threshold_value)
                    /\ local_max_coords' = coords
                    /\ segment_result' =
                          [binary_mask     |-> cleaned,
                           labeled_cells   |-> Watershed(Markers(coords), cleaned),
                           threshold_value |-> threshold_value]
    /\ pc' = "done"
    /\ UNCHANGED <<image, method, manual_threshold>>
    /\ UNCHANGED <<trackVars, lifetimeVars, seriesVars>>

InitSegment ==
    /\ pc = "start"
    /\ labeled_cells_sequence = <<>>
    /\ tracking_data = <<>>
    /\ LifetimeIdle
    /\ SeriesIdle
    /\ image \in Images
    /\ method \in Methods
    /\ manual_threshold \in ManualThresholds
    /\ thresholded = <<>>
    /\ local_max_coords = <<>>
    /\ segment_result = None

NextSegment ==
    \/ SegmentRaises
    \/ SegmentCells

SpecSegment == InitSegment /\ [][NextSegment]_vars

----------------------------------------------------------------------------
(* Properties of track_cells_over_time.                                    *)

\* frame t of the input sequence (t counts from 0, as in the code)
Frame(t) == labeled_cells_sequence[t + 1]

\* the frame indices at which the loop has run
Steps == 1..(Len(labeled_cells_sequence) - 1)

PositiveLabels(img) == {L \in 1..MaxLabel : \E p \in DOMAIN img : img[p] = L}

\* mean pixel coordinate of label L in img
MeanCoord(img, L) ==
    LET C == {p \in DOMAIN img : img[p] = L}
    IN  <<Rat(SumCoord(C, 1), Cardinality(C)), Rat(SumCoord(C, 2), Cardinality(C))>>

\* the centroid of every region of frame t
Regions(t) == [L \in PositiveLabels(Frame(t)) |-> MeanCoord(Frame(t), L)]

\* every centroid of an image of n pixels is a multiple of 1/n!
RECURSIVE Factorial(_)
Factorial(n) == IF n <= 1 THEN 1 ELSE n * Factorial(n - 1)

Scale == Factorial(Cardinality(DOMAIN Frame(0)))

\* the centroid c in units of 1/S pixel, a pair of integers
ScaledBy(S, c) == <<c[1][1] * (S \div c[1][2]), c[2][1] * (S \div c[2][2])>>

\* squared Euclidean distance of two integer points
SqDist(x, y) ==
    (x[1] - y[1]) * (x[1] - y[1]) + (x[2] - y[2]) * (x[2] - y[2])

\* squared distance, in units of 1/S^2, from centroid c to every centroid of cen
SqDists(S, c, cen) ==
    [L \in DOMAIN cen |-> SqDist(ScaledBy(S, c), ScaledBy(S, cen[L]))]

Tracked == pc # "start" /\ Len(labeled_cells_sequence) >= 1

\* C1: the persistent ids of the tracking table are exactly the positive
\* labels of frame 0; later frames never add an id.
C1_IdsAreFrame0Labels ==
    Tracked => DOMAIN tracking_data = PositiveLabels(Frame(0))

\* a later frame shows a label that frame 0 did not have
C1_Witness ==
    /\ Tracked
    /\ \E t \in Steps : \E L \in PositiveLabels(Frame(t)) :
          /\ L \notin PositiveLabels(Frame(0))
          /\ L \notin DOMAIN tracking_data

\* C2: consecutive entries of an identity are strictly less than 50 px
\* apart; a region at exactly 50 px is never linked.
C2_LinkedCloserThan50 ==
    \A id \in DOMAIN tracking_data : \A t \in DOMAIN tracking_data[id] :
        t >= 1 =>
            /\ (t - 1) \in DOMAIN tracking_data[id]
            /\ LET S == Scale
               IN  SqDist(ScaledBy(S, tracking_data[id][t - 1][2]),
                          ScaledBy(S, tracking_data[id][t][2])) < 2500 * S * S

\* one identity was linked over a positive distance, another one was left
\* unlinked with its nearest region exactly 50 px away
C2_Witness ==
    /\ \E id \in DOMAIN tracking_data : \E t \in DOMAIN tracking_data[id] :
          /\ t >= 1
          /\ tracking_data[id][t - 1][2] # tracking_data[id][t][2]
    /\ \E id \in DOMAIN tracking_data : \E t \in Steps :
          /\ (t - 1) \in DOMAIN tracking_data[id]
          /\ t \notin DOMAIN tracking_data[id]
          /\ PositiveLabels(Frame(t)) # {}
          /\ LET d == SqDists(Scale, tracking_data[id][t - 1][2], Regions(t))
             IN  \A L \in DOMAIN d : d[L] = 2500 * Scale * Scale

\* C3: the frames of an identity are a prefix 0..k of the frames read; an
\* identity without an entry at t has none at any later frame.
C3_ContiguousPrefix ==
    \A id \in DOMAIN tracking_data :
        /\ DOMAIN tracking_data[id] \subseteq 0..(Len(labeled_cells_sequence) - 1)
        /\ \A t \in DOMAIN tracking_data[id] : \A s \in 0..t :
              s \in DOMAIN tracking_data[id]

\* an identity was lost at t and a later frame has a region within 50 px of
\* its last centroid, yet it has no entry there
C3_Witness ==
    \E id \in DOMAIN tracking_data : \E t \in Steps : \E u \in Steps :
        /\ t < u
        /\ (t - 1) \in DOMAIN tracking_data[id]
        /\ t \notin DOMAIN tracking_data[id]
        /\ u \notin DOMAIN tracking_data[id]
        /\ LET d == SqDists(Scale, tracking_data[id][t - 1][2], Regions(u))
           IN  \E L \in DOMAIN d : d[L] < 2500 * Scale * Scale

\* the two-frame series of one single-pixel cell that moves from p to q
MovingCell(p, q) ==
    <<[x \in {p, q} |-> IF x = p THEN 1 ELSE 0],
      [x \in {p, q} |-> IF x = q THEN 1 ELSE 0]>>

\* C4: an identity with an entry at t-1 gets an entry at t exactly when
\* frame t has a region less than 50 px from its centroid at t-1, and the
\* entry is the label and centroid of a region at minimum distance; a cell
\* moving 10 px is present at t=0 and t=1, a cell moving 60 px only at t=0.
C4_LinkedIffNearestWithin50 ==
    /\ \A t \in Steps :
          LET S   == Scale
              cen == Regions(t)
          IN  \A id \in DOMAIN tracking_data :
                (t - 1) \in DOMAIN tracking_data[id] =>
                    LET d == SqDists(S, tracking_data[id][t - 1][2], cen)
                    IN  /\ t \in DOMAIN tracking_data[id]
                              <=> \E L \in DOMAIN cen : d[L] < 2500 * S * S
                        /\ t \in DOMAIN tracking_data[id] =>
                              LET e == tracking_data[id][t]
                              IN  /\ e[1] \in DOMAIN cen
                                  /\ e[2] = cen[e[1]]
                                  /\ \A L \in DOMAIN cen : d[e[1]] <= d[L]
    /\ labeled_cells_sequence = MovingCell(<<0, 0>>, <<6, 8>>) =>
          /\ DOMAIN tracking_data = {1}
          /\ DOMAIN tracking_data[1] = {0, 1}
    /\ labeled_cells_sequence = MovingCell(<<0, 0>>, <<36, 48>>) =>
          /\ DOMAIN tracking_data = {1}
          /\ DOMAIN tracking_data[1] = {0}

\* the cell that moved 10 px has been tracked over both frames
C4_Witness ==
    /\ pc = "done"
    /\ labeled_cells_sequence = MovingCell(<<0, 0>>, <<6, 8>>)
    /\ tracking_data[1][1] = <<1, <<<<6, 1>>, <<8, 1>>>>>>

\* the cell that moved 60 px has been lost
C4_WitnessLost ==
    /\ pc = "done"
    /\ labeled_cells_sequence = MovingCell(<<0, 0>>, <<36, 48>>)

\* the lowest label among the regions at minimum distance, given the
\* distance d[L] to every region L (0 when there is no region)
Nearest(d) ==
    IF DOMAIN d = {} THEN 0
    ELSE CHOOSE L \in DOMAIN d :
            \A M \in DOMAIN d : d[L] < d[M] \/ (d[L] = d[M] /\ L <= M)

\* C5: no mutual exclusion: two identities whose nearest region within
\* 50 px is the same region both get that region's label and centroid, and
\* identities at the same centroid at t-1 get the same outcome at t.
C5_NoMutualExclusion ==
    \A t \in Steps :
        LET S      == Scale
            cen    == Regions(t)
            Active == {id \in DOMAIN tracking_data : (t - 1) \in DOMAIN tracking_data[id]}
            d      == [id \in Active |-> SqDists(S, tracking_data[id][t - 1][2], cen)]
            near   == [id \in Active |-> Nearest(d[id])]
        IN  \A a \in Active : \A b \in Active \ {a} :
                /\ ( /\ near[a] # 0
                     /\ near[a] = near[b]
                     /\ d[a][near[a]] < 2500 * S * S
                     /\ d[b][near[b]] < 2500 * S * S ) =>
                        /\ t \in DOMAIN tracking_data[a]
                        /\ t \in DOMAIN tracking_data[b]
                        /\ tracking_data[a][t] = <<near[a], cen[near[a]]>>
                        /\ tracking_data[b][t] = <<near[a], cen[near[a]]>>
                /\ tracking_data[a][t - 1][2] = tracking_data[b][t - 1][2] =>
                        /\ t \in DOMAIN tracking_data[a] <=> t \in DOMAIN tracking_data[b]
                        /\ t \in DOMAIN tracking_data[a] =>
                              tracking_data[a][t] = tracking_data[b][t]

\* two identities at different centroids are linked to one region
C5_Witness ==
    \E t \in Steps : \E a \in DOMAIN tracking_data : \E b \in DOMAIN tracking_data :
        /\ a # b
        /\ t \in DOMAIN tracking_data[a]
        /\ t \in DOMAIN tracking_data[b]
        /\ tracking_data[a][t - 1][2] # tracking_data[b][t - 1][2]
        /\ tracking_data[a][t] = tracking_data[b][t]

\* C6: among regions tied at the minimum distance the identity is linked to
\* the one with the lowest label (the first in iteration order).
C6_TieFirstWins ==
    \A t \in Steps :
        LET cen == Regions(t)
        IN  \A id \in DOMAIN tracking_data :
              t \in DOMAIN tracking_data[id] =>
                  LET d == SqDists(Scale, tracking_data[id][t - 1][2], cen)
                      e == tracking_data[id][t]
                  IN  \A L \in DOMAIN cen : d[L] = d[e[1]] => e[1] <= L

\* an identity was linked although another region was at the same distance
C6_Witness ==
    \E t \in Steps : \E id \in DOMAIN tracking_data :
        /\ t \in DOMAIN tracking_data[id]
        /\ LET d == SqDists(Scale, tracking_data[id][t - 1][2], Regions(t))
           IN  \E L \in DOMAIN d :
                  /\ L # tracking_data[id][t][1]
                  /\ d[L] = d[tracking_data[id][t][1]]

\* C7: every positive label L of frame 0 is a persistent id whose frame-0
\* entry is (L, centroid of L in frame 0), for sequences of any length >= 1.
C7_Initialization ==
    Tracked =>
        \A L \in PositiveLabels(Frame(0)) :
            /\ L \in DOMAIN tracking_data
            /\ 0 \in DOMAIN tracking_data[L]
            /\ tracking_data[L][0] = <<L, MeanCoord(Frame(0), L)>>

\* a one-frame sequence whose only region has label 2 and two pixels
C7_Witness ==
    /\ pc = "done"
    /\ Len(labeled_cells_sequence) = 1
    /\ PositiveLabels(Frame(0)) = {2}
    /\ \A p \in DOMAIN Frame(0) : Frame(0)[p] = 2
    /\ tracking_data[2][0][2] = <<<<15, 1>>, <<20, 1>>>>

\* C20: every entry (label, centroid) of the tracking table at frame t names
\* a positive label of frame t's labeled image together with the centroid of
\* that label's region there, after every prefix of the sequence; an empty
\* sequence gives an empty table.
C20_EntriesNameRegions ==
    /\ \A id \in DOMAIN tracking_data :
          DOMAIN tracking_data[id] \subseteq 0..(Len(labeled_cells_sequence) - 1)
    /\ \A t \in 0..(Len(labeled_cells_sequence) - 1) :
          LET regions == Regions(t)
          IN  \A id \in DOMAIN tracking_data :
                 t \in DOMAIN tracking_data[id] =>
                    /\ tracking_data[id][t][1] \in DOMAIN regions
                    /\ tracking_data[id][t][2] = regions[tracking_data[id][t][1]]
    /\ (pc = "done" /\ Len(labeled_cells_sequence) = 0) => tracking_data = <<>>

\* an identity is linked at t >= 1 to a region with another label and
\* another centroid than it had at t-1
C20_Witness ==
    \E id \in DOMAIN tracking_data : \E t \in DOMAIN tracking_data[id] :
        /\ t >= 1
        /\ tracking_data[id][t][1] # id
        /\ tracking_data[id][t][1] # tracking_data[id][t - 1][1]
        /\ tracking_data[id][t][2] # tracking_data[id][t - 1][2]

----------------------------------------------------------------------------
(* Properties of extract_lifetime_data.                                    *)

Returned == pc = "done" /\ cell_data # None

\* the frame summary of the returned dict
Summary == cell_data[OverallKey]

\* the pixels that carry a positive label
LabeledPixels == {p \in DOMAIN cell_labels : cell_labels[p] > 0}

RECURSIVE RawSum(_)
RawSum(C) ==
    IF C = {} THEN 0
    ELSE LET p == CHOOSE q \in C : TRUE
         IN  lifetime_image[p] + RawSum(C \ {p})

\* the k-th smallest raw code among the pixels of C, counted with repeats
KthRaw(C, k) ==
    CHOOSE r \in {lifetime_image[p] : p \in C} :
        /\ Cardinality({p \in C : lifetime_image[p] < r}) < k
        /\ k <= Cardinality({p \in C : lifetime_image[p] <= r})

\* twice the median raw code of the pixels of C
TwiceMedianRaw(C) ==
    LET n == Cardinality(C)
    IN  IF n % 2 = 1 THEN 2 * KthRaw(C, (n + 1) \div 2)
        ELSE KthRaw(C, n \div 2) + KthRaw(C, n \div 2 + 1)

\* the lifetime num/den raw codes stand for: divided by 6553.5 when the
\* conversion is on
AsLifetime(num, den) ==
    IF convert_to_ns THEN Rat(2 * num, 13107 * den) ELSE Rat(num, den)

\* C8: total_area_pixels of the frame summary is the number of true pixels
\* of the binary mask, also when no cell is found.
C8_TotalAreaIsMaskCount ==
    Returned =>
        Summary.total_area_pixels
            = Cardinality({p \in DOMAIN binary_mask : binary_mask[p] = TRUE})

\* with at least one cell the summary does carry the mask's pixel count
C8_HoldsWithCells ==
    (Returned /\ LabeledPixels # {}) =>
        Summary.total_area_pixels
            = Cardinality({p \in DOMAIN binary_mask : binary_mask[p] = TRUE})

\* C9: without any positive label the call returns a summary whose median,
\* mean, std and cell count are 0, and no per-cell record.
C9_EmptyGivesZeros ==
    (Returned /\ LabeledPixels = {}) =>
        /\ DOMAIN cell_data = {OverallKey}
        /\ Summary.overall_median_lifetime = <<0, 1>>
        /\ Summary.overall_mean_lifetime = <<0, 1>>
        /\ Summary.overall_std_lifetime = <<0, 1>>
        /\ Summary.cell_count = 0

\* a call on an image without labels whose lifetime codes are not all 0
C9_Witness ==
    /\ Returned
    /\ LabeledPixels = {}
    /\ \E p \in DOMAIN lifetime_image : lifetime_image[p] > 0
    /\ \E p \in DOMAIN binary_mask : binary_mask[p]

\* C10: the summary's mean and median are those of the pooled lifetimes of
\* all labeled pixels, and cell_count is the number of per-cell records,
\* one per positive label of the labeled image.
C10_SummaryIsPooled ==
    Returned =>
        /\ DOMAIN cell_data \ {OverallKey}
              = {CellKey(L) : L \in PositiveLabels(cell_labels)}
        /\ Summary.cell_count = Cardinality(DOMAIN cell_data \ {OverallKey})
        /\ Summary.cell_count = Cardinality(PositiveLabels(cell_labels))
        /\ LabeledPixels # {} =>
              /\ Summary.overall_mean_lifetime
                    = AsLifetime(RawSum(LabeledPixels), Cardinality(LabeledPixels))
              /\ Summary.overall_median_lifetime
                    = AsLifetime(TwiceMedianRaw(LabeledPixels), 2)

\* two cells of two pixels and one pixel, whose pooled mean and median
\* differ from the mean and median of the per-cell means and medians
C10_Witness ==
    /\ Returned
    /\ convert_to_ns
    /\ Summary.cell_count = 2
    /\ Summary.overall_mean_lifetime = Rat(2, 13107)
    /\ Summary.overall_median_lifetime = <<0, 1>>
    /\ cell_data[CellKey(1)].mean_lifetime = <<0, 1>>
    /\ cell_data[CellKey(2)].mean_lifetime = Rat(6, 13107)

\* C19: the mapping returned by extract_lifetime_data has only cell ids as
\* keys; the frame summary is not an entry of it.
C19_OnlyCellKeys ==
    Returned => \A key \in DOMAIN cell_data : key[1] = "cell"

----------------------------------------------------------------------------
(* Properties of analyze_time_series_lifetime_data.                        *)

\* the number of frames whose loop iteration is complete
Analysed ==
    IF pc = "analyze" THEN Len(lifetime_time_series) - 1
    ELSE Len(lifetime_time_series)

\* the per-cell statistics of frame t, as the loop body obtains them
CellStatsOfFrame(t) ==
    RegionLoop(ConvertRawToNanoseconds(lifetime_time_series[t + 1]), Frame(t),
               RegionProps(Frame(t)), 1,
               [cell_data |-> <<>>, all_lifetimes |-> <<>>]).cell_data

\* the position of frame t in the lists of identity id, 0 if there is none
EntryAt(id, t) ==
    IF id \in DOMAIN time_series_data
          /\ \E k \in 1..Len(time_series_data[id].time_points) :
                time_series_data[id].time_points[k] = t
    THEN CHOOSE k \in 1..Len(time_series_data[id].time_points) :
             time_series_data[id].time_points[k] = t
    ELSE 0

C12_EntryCarriesCentroid ==
    \A id \in DOMAIN time_series_data :
        LET data == time_series_data[id]
        IN  /\ {"time_points", "median_lifetime", "mean_lifetime",
                "std_lifetime", "area_pixels", "centroid_x", "centroid_y"}
                  \subseteq DOMAIN data
            /\ \A k \in 1..Len(data.time_points) :
                  LET t == data.time_points[k]
                  IN  <<data.centroid_y[k], data.centroid_x[k]>>
                         = tracking_data[id][t][2]

\* the fields an entry does carry
C12_HoldsWithoutCentroid ==
    \A id \in DOMAIN time_series_data :
        DOMAIN time_series_data[id]
           = {"time_points", "median_lifetime", "mean_lifetime",
              "std_lifetime", "area_pixels"}

\* the sum of the raw codes of image img over the pixels of C
RECURSIVE SumOver(_, _)
SumOver(img, C) ==
    IF C = {} THEN 0
    ELSE LET p == CHOOSE q \in C : TRUE
         IN  img[p] + SumOver(img, C \ {p})

\* the mean, in nanoseconds, of the raw codes of img over label L of labels:
\* the raw mean divided by 6553.5 once
MeanNs(img, labels, L) ==
    LET C == {p \in DOMAIN labels : labels[p] = L}
    IN  Rat(2 * SumOver(img, C), 13107 * Cardinality(C))

\* every per-cell mean that a run has produced is the mean of the frame's
\* raw codes divided by 6553.5 exactly once
MeansConvertedOnce ==
    /\ Returned =>
          \A L \in PositiveLabels(cell_labels) :
              cell_data[CellKey(L)].mean_lifetime
                 = MeanNs(lifetime_image, cell_labels, L)
    /\ \A id \in DOMAIN time_series_data :
          LET data == time_series_data[id]
          IN  \A k \in 1..Len(data.time_points) :
                 LET t == data.time_points[k]
                 IN  data.mean_lifetime[k]
                        = MeanNs(lifetime_time_series[t + 1], Frame(t),
                                 tracking_data[id][t][1])

\* no step changes a raw lifetime image the caller holds
RawImagesKept ==
    /\ lifetime_image' = lifetime_image
    /\ \A i \in 1..Len(lifetime_time_series) :
          lifetime_time_series'[i] = lifetime_time_series[i]

\* C18: in the single-frame run and in the time-series run the statistics
\* of a frame are computed from its raw image divided by 6553.5 exactly
\* once, and every step leaves the caller's raw lifetime images as they were.
C18_ConvertedOncePerFrame ==
    []MeansConvertedOnce /\ [][RawImagesKept]_vars

\* a two-frame series is analysed and one identity has, at both frames, the
\* mean of a nonzero raw code divided by 6553.5
C18_Witness ==
    /\ pc = "done"
    /\ \E id \in DOMAIN time_series_data :
          /\ time_series_data[id].time_points = <<0, 1>>
          /\ time_series_data[id].mean_lifetime
                = <<Rat(2, 13107), Rat(6, 13107)>>

\* C21: after every processed frame, the five lists of every identity of
\* the result have one and the same length, which is not 0; the identities
\* of the result are persistent ids of the tracking table; and every time
\* point of an identity is a frame at which the table has an entry for it.
C21_ListsAligned ==
    /\ DOMAIN time_series_data \subseteq DOMAIN tracking_data
    /\ \A id \in DOMAIN time_series_data :
          LET data == time_series_data[id]
              n    == Len(data.time_points)
          IN  /\ n > 0
              /\ Len(data.median_lifetime) = n
              /\ Len(data.mean_lifetime) = n
              /\ Len(data.std_lifetime) = n
              /\ Len(data.area_pixels) = n
              /\ \A k \in 1..n : data.time_points[k] \in DOMAIN tracking_data[id]

\* between two iterations: two frames are processed, one identity has two
\* entries in each list and another, lost at frame 1, has one
C21_Witness ==
    /\ pc = "series"
    /\ Analysed = 2
    /\ \E id \in DOMAIN time_series_data :
          /\ Len(time_series_data[id].time_points) = 2
          /\ Len(time_series_data[id].area_pixels) = 2
    /\ \E id \in DOMAIN time_series_data :
          /\ Len(time_series_data[id].time_points) = 1
          /\ DOMAIN tracking_data[id] = {0}

----------------------------------------------------------------------------
(* Properties of segment_cells.                                            *)

\* C13: a call with method 'manual' and no threshold, or with a method
\* other than otsu, adaptive and manual, ends in the error and returns
\* nothing; a call with method 'manual' and a threshold returns, and the
\* threshold it reports is the one supplied.
C13_ConfigurationErrors ==
    pc # "start" =>
        /\ (method = "manual" /\ manual_threshold = None)
              => (pc = "error" /\ segment_result = None)
        /\ method \notin {"otsu", "adaptive", "manual"}
              => (pc = "error" /\ segment_result = None)
        /\ (method = "manual" /\ manual_threshold # None)
              => /\ pc = "done"
                 /\ segment_result # None
                 /\ segment_result.threshold_value = manual_threshold

\* a call with method 'manual' and the threshold 0.0 has returned
C13_Witness ==
    /\ pc = "done"
    /\ method = "manual"
    /\ manual_threshold = <<0, 1>>
    /\ segment_result.threshold_value = <<0, 1>>

\* a call has ended in the error
C13_WitnessError ==
    /\ pc = "error"
    /\ method = "manual"
    /\ manual_threshold = None

\* the value of the pixel in column pos of the row held as runs
ValueAt(runs, pos) ==
    LET i == CHOOSE j \in 1..Len(runs) :
                 Start(runs, j) <= pos /\ pos < Start(runs, j) + runs[j][2]
    IN  runs[i][1]

\* the mask a returned call has cleaned
Cleaned == segment_result.binary_mask

\* the holes of a mask: background runs with foreground on both sides
Holes(mask) == {i \in 2..(Len(mask) - 1) : ~mask[i][1]}

\* run i of the thresholded mask is background of 50 pixels or more
Wide(i) == ~thresholded[i][1] /\ thresholded[i][2] >= 50

\* the runs that reach run i without crossing a wide background run
Stretch(i) ==
    {j \in 1..Len(thresholded) :
        \A k \in 1..Len(thresholded) :
            ((i <= k /\ k <= j) \/ (j <= k /\ k <= i)) => ~Wide(k)}

RECURSIVE StretchLength(_)
StretchLength(S) ==
    IF S = {} THEN 0
    ELSE LET j == CHOOSE k \in S : TRUE
         IN  thresholded[j][2] + StretchLength(S \ {j})

\* C14: after the cleanup every foreground component has at least 100
\* pixels and every hole enclosed by foreground has more than 50.
C14_HolesLargerThan50 ==
    pc = "done" =>
        /\ \A i \in Components(Cleaned) : Cleaned[i][2] >= 100
        /\ \A i \in Holes(Cleaned) : Cleaned[i][2] > 50

\* what the cleanup does guarantee: every foreground component has at least
\* 100 pixels and every hole enclosed by foreground has at least 50; holes
\* are filled before objects are pruned: a pixel is foreground exactly when
\* the foreground and the background runs of fewer than 50 pixels around it
\* add up to 100 pixels or more.
C14_HolesAtLeast50 ==
    pc = "done" =>
        /\ \A i \in 1..(Len(Cleaned) - 1) : Cleaned[i][1] # Cleaned[i + 1][1]
        /\ \A i \in Components(Cleaned) : Cleaned[i][2] >= 100
        /\ \A i \in Holes(Cleaned) : Cleaned[i][2] >= 50
        /\ \A i \in 1..Len(thresholded) :
              ValueAt(Cleaned, Start(thresholded, i))
                 = (~Wide(i) /\ StretchLength(Stretch(i)) >= 100)

\* the cleaned mask keeps a hole of exactly 50 pixels between two
\* components of 100 pixels
C14_WitnessHoleOf50 ==
    /\ pc = "done"
    /\ Cleaned = <<<<TRUE, 100>>, <<FALSE, 50>>, <<TRUE, 100>>>>

\* two objects of 50 pixels around a hole of 49 pixels come out as one
\* component of 149 pixels
C14_WitnessFilledFirst ==
    /\ pc = "done"
    /\ thresholded = <<<<TRUE, 50>>, <<FALSE, 49>>, <<TRUE, 50>>>>
    /\ Cleaned = <<<<TRUE, 149>>>>

\* the labeled image a returned call has produced
Labeled == segment_result.labeled_cells

\* C15: the labeled image is 0 wherever the cleaned mask is background;
\* its positive values lie in 1..N, N the number of accepted maxima, and
\* stand on foreground only; the pixel of the i-th maximum carries i; with
\* no maximum the labeled image is 0 everywhere (cell count 0).
C15_LabelsFromMarkers ==
    pc = "done" =>
        LET N == Len(local_max_coords)
        IN  /\ \A i \in 1..Len(Labeled) :
                  /\ Labeled[i][1] \in 0..N
                  /\ Labeled[i][1] > 0 =>
                        /\ ValueAt(Cleaned, Start(Labeled, i))
                        /\ ValueAt(Cleaned, Start(Labeled, i) + Labeled[i][2] - 1)
            /\ \A i \in 1..Len(Cleaned) :
                  ~Cleaned[i][1] =>
                      /\ ValueAt(Labeled, Start(Cleaned, i)) = 0
                      /\ ValueAt(Labeled, Start(Cleaned, i) + Cleaned[i][2] - 1) = 0
            /\ Start(Labeled, Len(Labeled) + 1) = Start(Cleaned, Len(Cleaned) + 1)
            /\ \A i \in 1..N : ValueAt(Labeled, local_max_coords[i]) = i
            /\ N = 0 => \A i \in 1..Len(Labeled) : Labeled[i][1] = 0

\* two components: one holds two maxima and is split into two labels, the
\* other holds none and stays 0 although it is foreground
C15_Witness ==
    /\ pc = "done"
    /\ Len(local_max_coords) = 2
    /\ Cardinality(Components(Cleaned)) = 2
    /\ \E i \in Components(Cleaned) :
          /\ ValueAt(Labeled, Start(Cleaned, i)) = 0
          /\ ValueAt(Labeled, Start(Cleaned, i) + Cleaned[i][2] - 1) = 0
    /\ \E i \in 1..(Len(Labeled) - 1) :
          Labeled[i][1] > 0 /\ Labeled[i + 1][1] > 0

\* a call on an image without foreground: no maximum, no label
C15_WitnessEmpty ==
    /\ pc = "done"
    /\ Components(Cleaned) = {}
    /\ local_max_coords = <<>>
    /\ \A i \in 1..Len(Labeled) : Labeled[i][1] = 0

----------------------------------------------------------------------------
(* Properties of convert_raw_to_nanoseconds.                               *)

Converted == pc = "done" /\ lifetime_ns # None

\* C16: the conversion is raw / 6553.5 at every pixel, without clamping:
\* 0 gives 0.0, 65535 gives 10.0, a code twice another gives twice its
\* lifetime, and a code above 65535 gives more than 10 ns.
C16_LinearNoClamp ==
    Converted =>
        /\ DOMAIN lifetime_ns = DOMAIN lifetime_image
        /\ \A p \in DOMAIN lifetime_image :
              /\ lifetime_ns[p] = Rat(2 * lifetime_image[p], 13107)
              /\ lifetime_image[p] = 0 => lifetime_ns[p] = <<0, 1>>
              /\ lifetime_image[p] = 65535 => lifetime_ns[p] = <<10, 1>>
              /\ lifetime_image[p] > 65535 => RatLess(<<10, 1>>, lifetime_ns[p])
              /\ \A q \in DOMAIN lifetime_image :
                    lifetime_image[q] = 2 * lifetime_image[p]
                       => lifetime_ns[q] = RatAdd(lifetime_ns[p], lifetime_ns[p])

\* an image with the codes 32767, its double 65534, and 65536 is converted
C16_Witness ==
    /\ Converted
    /\ {lifetime_image[p] : p \in DOMAIN lifetime_image} = {32767, 65534, 65536}

----------------------------------------------------------------------------
(* Scenario: a region whose pixels all carry the raw code 32767.           *)

\* the call has returned, the conversion was on, and every pixel of label L
\* has the raw code 32767
UniformRegion(L) ==
    /\ Returned
    /\ convert_to_ns
    /\ L \in PositiveLabels(cell_labels)
    /\ \A p \in DOMAIN cell_labels : cell_labels[p] = L => lifetime_image[p] = 32767

\* C17: the median lifetime reported for such a region is 5.0003 ns, to
\* four decimal places.
C17_MedianIs50003 ==
    \A L \in 1..MaxLabel :
        UniformRegion(L) =>
            /\ RatLess(<<25001, 5000>>, cell_data[CellKey(L)].median_lifetime)
            /\ RatLess(cell_data[CellKey(L)].median_lifetime, <<25002, 5000>>)

\* C17, as the code computes it: the median lifetime reported for such a
\* region is 32767 / 6553.5 ns, which is 4.9999 ns to four decimal places.
C17_MedianIs49999 ==
    \A L \in 1..MaxLabel :
        UniformRegion(L) =>
            /\ cell_data[CellKey(L)].median_lifetime = Rat(65534, 13107)
            /\ RatLess(<<24999, 5000>>, cell_data[CellKey(L)].median_lifetime)
            /\ RatLess(cell_data[CellKey(L)].median_lifetime, <<5, 1>>)

\* a region of two pixels of raw code 32767 has been measured
C17_Witness ==
    \E L \in 1..MaxLabel :
        /\ UniformRegion(L)
        /\ cell_data[CellKey(L)].area_pixels = 2

====
